---- MODULE Spec2Model ----
(***************************************************************************)
(* Model of uploader_service/server.py: the MCP tool server whose          *)
(* call_tool dispatcher routes "build_upload" to handle_build_upload,      *)
(* which stages a PlatformIO project and runs `pio run` twice.             *)
(*                                                                         *)
(* A Python str is a sequence of chunks (characters or literal pieces),    *)
(* bytes are a sequence of integers, a dict is a total function onto       *)
(* values with Absent marking a missing key, a Path is the tuple of its    *)
(* parts, and the filesystem is a function from paths to nodes.            *)
(***************************************************************************)
EXTENDS Integers, Sequences, FiniteSets, TLC

\* Number of tool calls the transport hands to the server in one behaviour.
MaxCalls == 2

Calls == 1..MaxCalls

-----------------------------------------------------------------------------
(* Python values *)

None == [t |-> "none"]
Absent == [t |-> "absent"]
Str(s) == [t |-> "str", s |-> s]
Int_(n) == [t |-> "int", n |-> n]
Bytes(b) == [t |-> "bytes", b |-> b]

\* the test `v is not None` in place of truthiness
Truthy_not_none(v) == v.t \notin {"none", "absent"}

\* bool(v) as used by `if project_dir:` and `not platformio_ini`
Truthy(v) ==
  CASE v.t = "str" -> v.s # <<>>
    [] v.t = "int" -> v.n # 0
    [] v.t = "bytes" -> v.b # <<>>
    [] OTHER -> FALSE

\* `k in d`, and d.get(k, default)
Has(d, k) == d[k] # Absent
Get(d, k, default) == IF Has(d, k) THEN d[k] ELSE default

Digits == <<"0", "1", "2", "3", "4", "5", "6", "7", "8", "9">>
IsDigit(c) == \E i \in 1..10 : Digits[i] = c
DigitVal(c) == (CHOOSE i \in 1..10 : Digits[i] = c) - 1

RECURSIVE ParseDigits(_, _)
ParseDigits(s, acc) ==
  IF s = <<>> THEN acc ELSE ParseDigits(Tail(s), acc * 10 + DigitVal(Head(s)))

\* whether int(v) returns, and what it returns
CanInt(v) ==
  CASE v.t = "int" -> TRUE
    [] v.t = "str" -> v.s # <<>> /\ \A i \in 1..Len(v.s) : IsDigit(v.s[i])
    [] OTHER -> FALSE
IntOf(v) == IF v.t = "int" THEN v.n ELSE ParseDigits(v.s, 0)

-----------------------------------------------------------------------------
(* str.encode("utf-8") and bytes.decode(errors="ignore") over the alphabet *)
(* the model uses: ASCII characters and one two-byte character.            *)

EACUTE == "e'"

Utf8(c) ==
  CASE c = "a" -> <<97>>
    [] c = "b" -> <<98>>
    [] c = "[" -> <<91>>
    [] c = "]" -> <<93>>
    [] c = ";" -> <<59>>
    [] c = EACUTE -> <<195, 169>>
    [] OTHER -> <<63>>

RECURSIVE Encode(_)
Encode(s) == IF s = <<>> THEN <<>> ELSE Utf8(Head(s)) \o Encode(Tail(s))

AsciiChar(b) ==
  CASE b = 97 -> "a"
    [] b = 98 -> "b"
    [] b = 91 -> "["
    [] b = 93 -> "]"
    [] b = 59 -> ";"
    [] OTHER -> "?"

\* errors="ignore": a byte that starts no valid sequence is dropped
RECURSIVE Decode(_)
Decode(b) ==
  IF b = <<>> THEN <<>>
  ELSE IF Head(b) < 128 THEN <<AsciiChar(Head(b))>> \o Decode(Tail(b))
  ELSE IF Head(b) = 195 /\ Len(b) >= 2 /\ b[2] = 169 THEN <<EACUTE>> \o Decode(Tail(Tail(b)))
  ELSE Decode(Tail(b))

-----------------------------------------------------------------------------
(* pathlib.Path: a path is the tuple of its parts, "/" first when absolute *)

HOME == <<"/", "home", "user">>
CWD == <<"/", "work">>

RECURSIVE NoSep(_)
NoSep(s) ==
  IF s = <<>> THEN <<>>
  ELSE IF Head(s) = "/" THEN NoSep(Tail(s)) ELSE <<Head(s)>> \o NoSep(Tail(s))

\* Path(s): split the string at its separators
Path(s) ==
  IF s # <<>> /\ Head(s) = "/" THEN <<"/">> \o NoSep(s) ELSE NoSep(s)

expanduser(p) ==
  IF p # <<>> /\ Head(p) = "~" THEN HOME \o Tail(p) ELSE p

\* resolve(): make absolute against the working directory
resolve_path(p) ==
  IF p # <<>> /\ Head(p) = "/" THEN p ELSE CWD \o p

Join(p, name) == p \o <<name>>

RECURSIVE JoinSep(_)
JoinSep(p) ==
  IF p = <<>> THEN <<>>
  ELSE IF Len(p) = 1 THEN p
  ELSE <<Head(p), "/">> \o JoinSep(Tail(p))

\* str(path)
PathStr(p) ==
  IF p # <<>> /\ Head(p) = "/" THEN <<"/">> \o JoinSep(Tail(p)) ELSE JoinSep(p)

-----------------------------------------------------------------------------
(* Filesystem: path -> node *)

Dir == [kind |-> "dir"]
File(b) == [kind |-> "file", bytes |-> b]

exists(fsv, p) == p \in DOMAIN fsv

Put(fsv, p, node) == [q \in DOMAIN fsv \cup {p} |-> IF q = p THEN node ELSE fsv[q]]

\* Path.mkdir(parents=True, exist_ok=True)
mkdir(fsv, p) == IF exists(fsv, p) THEN fsv ELSE Put(fsv, p, Dir)

\* write_text under an ASCII default encoding that replaces what it cannot encode
write_text_ascii(fsv, p, text) ==
  Put(fsv, p, File([i \in 1..Len(text) |-> IF Len(Utf8(text[i])) = 1 THEN Utf8(text[i])[1] ELSE 63]))

\* Path.write_text(text, encoding="utf-8")
write_text(fsv, p, text) == Put(fsv, p, File(Encode(text)))

-----------------------------------------------------------------------------
(* Requests, results, exceptions *)

Keys == {"board_id", "port", "baud", "project_dir", "platformio_ini", "src", "module"}

DEFAULT_PORT == <<"/dev/ttyUSB0">>
DEFAULT_BAUD == 115200

CONFIG_NAME == "platformio.ini"
SRC_DIR == "src"
MAIN_NAME == "main.cpp"

SUCCESS_TEXT == <<"Build & Upload completed!">>
CMD_ERROR_PREFIX == <<"Build or Upload Error:", "\n">>
UNEXPECTED_PREFIX == <<"Unexpected error: ">>
GUIDE_TEXT == <<"This tool is designed to suggest how to connect your board and module.", "\n", "Please wait while the AI composes a connection guide, or try describing the hardware in more detail.">>
NEED_SOURCE_MSG == <<"Either project_dir or both platformio_ini and src must be provided.">>
NO_CONFIG_PREFIX == <<"platformio.ini not found in: ">>

TextContent(text) == [type |-> "text", text |-> text]

NoResult == [kind |-> "none"]
Return(content) == [kind |-> "return", content |-> content]
Raise(e) == [kind |-> "raise", exc |-> e]

Exception(type, msg) == [type |-> type, msg |-> msg, output |-> None]
\* subprocess.CalledProcessError(returncode, cmd, output)
CalledProcessError(code, output) ==
  [type |-> "CalledProcessError", msg |-> <<"Command returned non-zero exit status">>, output |-> output]

\* list_tools(): the names of the two descriptors
list_tools == <<"build_upload", "check_connection_guide">>
ToolNames == {list_tools[i] : i \in 1..Len(list_tools)}

-----------------------------------------------------------------------------
(* The frame of one call: the request, handle_build_upload's locals, the   *)
(* commands it has handed to subprocess, and what it returned or raised.   *)

NoArgs == [k \in Keys |-> Absent]

IdleFrame ==
  [pc |-> "idle", name |-> "", arguments |-> NoArgs,
   board |-> None, port |-> None, baud |-> None, project_path |-> <<>>,
   cmds |-> <<>>, result |-> NoResult]

Terminal == {"succeeded", "failed", "raised", "guide"}
Running == {"resolving", "building", "uploading"}

\* the except clauses of handle_build_upload
except_(f, e) ==
  IF e.type = "CalledProcessError"
  THEN IF e.output.t = "bytes"
       THEN [f EXCEPT !.pc = "failed",
                      !.result = Return(<<TextContent(CMD_ERROR_PREFIX \o Decode(e.output.b))>>)]
       ELSE \* e.output is None: .decode raises inside the handler, past `except Exception`
            [f EXCEPT !.pc = "raised",
                      !.result = Raise(Exception("AttributeError",
                                   <<"'NoneType' object has no attribute 'decode'">>))]
  ELSE [f EXCEPT !.pc = "failed",
                 !.result = Return(<<TextContent(UNEXPECTED_PREFIX \o e.msg)>>)]

\* What the operating system answers to one subprocess call
Exit(code, output) == [kind |-> "exit", code |-> code, output |-> output]
SpawnError == [kind |-> "oserror", code |-> 0 - 1, output |-> <<>>]
NoOutcome == [kind |-> "none", code |-> 0 - 1, output |-> <<>>]

OS_ERROR_MSG == <<"[Errno 2] No such file or directory: 'pio'">>
FS_ERROR_MSG == <<"[Errno 28] No space left on device">>

\* subprocess.run without check=True: a nonzero exit status raises nothing
check_output_unchecked(out) ==
  IF out.kind = "oserror" THEN Exception("FileNotFoundError", OS_ERROR_MSG) ELSE None

\* subprocess.check_output(cmd, stderr=STDOUT): the exception it raises, if any
check_output(out) ==
  IF out.kind = "oserror" THEN Exception("FileNotFoundError", OS_ERROR_MSG)
  ELSE IF out.code # 0 THEN CalledProcessError(out.code, Bytes(out.output))
  ELSE None

\* subprocess.check_call(cmd): nothing is captured, so the error's output is None
check_call(out) ==
  IF out.kind = "oserror" THEN Exception("FileNotFoundError", OS_ERROR_MSG)
  ELSE IF out.code # 0 THEN CalledProcessError(out.code, None)
  ELSE None

\* " ".join(cmd) raises TypeError when an item is not a str
Joinable(cmd) == \A i \in 1..Len(cmd) : cmd[i].t = "str"
JOIN_ERROR_MSG == <<"sequence item 9: expected str instance, int found">>

build_cmd(f) ==
  <<Str(<<"pio">>), Str(<<"run">>), Str(<<"-d">>), Str(PathStr(f.project_path)),
    Str(<<"-e">>), f.board>>

\* the upload command with the schema's default port in place of the local
upload_cmd_default_port(f) ==
  <<Str(<<"pio">>), Str(<<"run">>), Str(<<"-d">>), Str(PathStr(f.project_path)),
    Str(<<"-e">>), f.board, Str(<<"-t">>), Str(<<"upload">>),
    Str(<<"--upload-port">>), Str(DEFAULT_PORT)>>

\* the upload command with baud threaded into it
upload_cmd_with_baud(f) ==
  <<Str(<<"pio">>), Str(<<"run">>), Str(<<"-d">>), Str(PathStr(f.project_path)),
    Str(<<"-e">>), f.board, Str(<<"-t">>), Str(<<"upload">>),
    Str(<<"--upload-port">>), f.port, Str(<<"--upload-speed">>), Str(<<ToString(f.baud.n)>>)>>

upload_cmd(f) ==
  <<Str(<<"pio">>), Str(<<"run">>), Str(<<"-d">>), Str(PathStr(f.project_path)),
    Str(<<"-e">>), f.board, Str(<<"-t">>), Str(<<"upload">>),
    Str(<<"--upload-port">>), f.port>>

\* tempfile.mkdtemp(): the directory it creates, named by the draw n
TmpPath(n) == <<"/", "tmp", ToString(n)>>

NoEnv == [tmp |-> 0, fserr |-> "none"]

\* a dispatcher whose last branch answers instead of raising
call_tool_lenient(name, arguments) ==
  LET f == [IdleFrame EXCEPT !.name = name, !.arguments = arguments] IN
  IF name = "build_upload" THEN [f EXCEPT !.pc = "resolving"]
  ELSE [f EXCEPT !.pc = "guide", !.result = Return(<<TextContent(GUIDE_TEXT)>>)]

\* call_tool(name, arguments), up to the first statement of the handler
call_tool(name, arguments) ==
  LET f == [IdleFrame EXCEPT !.name = name, !.arguments = arguments] IN
  IF name = "build_upload" THEN [f EXCEPT !.pc = "resolving"]
  ELSE IF name = "check_connection_guide"
  THEN [f EXCEPT !.pc = "guide", !.result = Return(<<TextContent(GUIDE_TEXT)>>)]
  ELSE [f EXCEPT !.pc = "raised",
                 !.result = Raise(Exception("ValueError", <<"unknown tool ", name>>))]

\* handle_build_upload, argument extraction and project source (lines 88-107).
\* env is what the filesystem answers: the name mkdtemp draws and whether
\* mkdtemp or the first write fails. Gives the frame and the filesystem after.
resolve(f, fsv, env) ==
  LET a == f.arguments IN
  IF ~Has(a, "board_id")
  THEN [frame |-> except_(f, Exception("KeyError", <<"'board_id'">>)), fs |-> fsv]
  ELSE
  LET board == a["board_id"]
      port == Get(a, "port", Str(DEFAULT_PORT))
      baudv == Get(a, "baud", Int_(DEFAULT_BAUD))
      f1 == [f EXCEPT !.board = board, !.port = port]
  IN
  IF ~CanInt(baudv)
  THEN [frame |-> except_(f1, Exception("ValueError",
                     <<"invalid literal for int() with base 10: ">> \o baudv.s)),
        fs |-> fsv]
  ELSE
  LET f2 == [f1 EXCEPT !.baud = Int_(IntOf(baudv))]
      project_dir == Get(a, "project_dir", None)
  IN
  IF Truthy(project_dir)
  THEN LET project_path == resolve_path(expanduser(Path(project_dir.s))) IN
       IF ~exists(fsv, project_path) \/ ~exists(fsv, Join(project_path, CONFIG_NAME))
       THEN [frame |-> except_(f2, Exception("FileNotFoundError",
                          NO_CONFIG_PREFIX \o PathStr(project_path))),
             fs |-> fsv]
       ELSE [frame |-> [f2 EXCEPT !.pc = "building", !.project_path = project_path],
             fs |-> fsv]
  ELSE
  LET platformio_ini == Get(a, "platformio_ini", None)
      src == Get(a, "src", None)
  IN
  IF ~Truthy(platformio_ini) \/ ~Truthy(src)
  THEN [frame |-> except_(f2, Exception("ValueError", NEED_SOURCE_MSG)), fs |-> fsv]
  ELSE IF env.fserr = "mkdtemp"
  THEN [frame |-> except_(f2, Exception("OSError", FS_ERROR_MSG)), fs |-> fsv]
  ELSE
  LET project_path == TmpPath(env.tmp)
      f3 == [f2 EXCEPT !.project_path = project_path]
      fs1 == Put(fsv, project_path, Dir)
      fs2 == mkdir(fs1, Join(project_path, SRC_DIR))
  IN
  IF env.fserr = "write"
  THEN [frame |-> except_(f3, Exception("OSError", FS_ERROR_MSG)), fs |-> fs2]
  ELSE
  LET fs3 == write_text(fs2, Join(project_path, CONFIG_NAME), platformio_ini.s)
      fs4 == write_text(fs3, Join(Join(project_path, SRC_DIR), MAIN_NAME), src.s)
  IN [frame |-> [f3 EXCEPT !.pc = "building"], fs |-> fs4]

\* handle_build_upload, the build (lines 110-112): out is the outcome of `pio run`
build(f, out) ==
  LET cmd == build_cmd(f) IN
  IF ~Joinable(cmd) THEN except_(f, Exception("TypeError", JOIN_ERROR_MSG))
  ELSE
  LET g == [f EXCEPT !.cmds = Append(f.cmds, cmd)]
      e == check_output(out)
  IN IF e # None THEN except_(g, e) ELSE [g EXCEPT !.pc = "uploading"]

\* handle_build_upload, the upload (lines 115-123)
upload(f, out) ==
  LET cmd == upload_cmd(f) IN
  IF ~Joinable(cmd) THEN except_(f, Exception("TypeError", JOIN_ERROR_MSG))
  ELSE
  LET g == [f EXCEPT !.cmds = Append(f.cmds, cmd)]
      e == check_call(out)
  IN IF e # None THEN except_(g, e)
     ELSE [g EXCEPT !.pc = "succeeded", !.result = Return(<<TextContent(SUCCESS_TEXT)>>)]

\* call_tool for one request, run to its end against the answers o of the
\* filesystem and of the two processes
Run(name, arguments, o) ==
  LET f0 == call_tool(name, arguments)
      r1 == IF f0.pc = "resolving" THEN resolve(f0, o.fs0, o.env) ELSE [frame |-> f0, fs |-> o.fs0]
      f2 == IF r1.frame.pc = "building" THEN build(r1.frame, o.bout) ELSE r1.frame
      f3 == IF f2.pc = "uploading" THEN upload(f2, o.uout) ELSE f2
  IN [frame |-> f3, fs |-> r1.fs]

\* a handler that awaits its subprocesses, giving the loop to other tasks
Suspends_at_subprocess(pc) == pc \in {"building", "uploading"}

\* handle_build_upload holds the event loop from its first statement to its
\* return: it awaits nothing, and both subprocess calls block the thread.
Suspends(pc) == FALSE

-----------------------------------------------------------------------------
(* The inputs the model draws *)

BoardVals == {Absent, Str(<<"uno">>), Str(<<"esp32dev">>)}
PortVals == {Absent, Str(<<"/dev/ttyACM0">>), Int_(5)}
BaudVals == {Absent, Int_(9600), Str(<<"5", "7", "6", "0", "0">>), Str(<<"f", "a", "s", "t">>)}
DirVals == {Absent, Str(<<>>), Str(<<"~", "/", "proj">>), Str(<<"/", "srv", "/", "noini">>), Str(<<"missing">>)}
IniVals == {Absent, Str(<<>>), Str(<<"[", "a", "]">>)}
SrcVals == {Absent, Str(<<>>), Str(<<"b", EACUTE, ";">>)}

BuildArgs ==
  [board_id : BoardVals, port : PortVals, baud : BaudVals, project_dir : DirVals,
   platformio_ini : IniVals, src : SrcVals, module : {Absent}]

GuideArgs ==
  [board_id : {Str(<<"uno">>)}, port : {Absent}, baud : {Absent}, project_dir : {Absent},
   platformio_ini : {Absent}, src : {Absent}, module : {Absent, Str(<<"BME280">>)}]

Requests ==
  {[name |-> "build_upload", arguments |-> a] : a \in BuildArgs}
  \cup {[name |-> n, arguments |-> a] :
          n \in {"check_connection_guide", "nonexistent_tool"}, a \in GuideArgs}

\* an existing project with its platformio.ini, and a directory without one
InitFs ==
  LET proj == HOME \o <<"proj">>
      bare == <<"/", "srv", "noini">>
  IN [p \in {proj, Join(proj, CONFIG_NAME), bare} |->
        IF p = Join(proj, CONFIG_NAME) THEN File(<<91, 93>>) ELSE Dir]

FailOutputs == {<<>>, <<97, 255, 98>>, <<195, 169>>}
BuildOutcomes == {Exit(0, <<97>>), SpawnError} \cup {Exit(1, o) : o \in FailOutputs}
UploadOutcomes == {Exit(0, <<>>), Exit(1, <<98>>), SpawnError}

\* mkdtemp draws a name that does not exist yet
Envs(fsv) ==
  {[tmp |-> n, fserr |-> e] :
     n \in {m \in Calls : ~exists(fsv, TmpPath(m))}, e \in {"none", "mkdtemp", "write"}}

\* the answers of the filesystem that the frame's resolve step can observe
EnvChoices(f, fsv) ==
  IF \A e \in Envs(fsv) : resolve(f, fsv, e) = resolve(f, fsv, NoEnv)
  THEN {NoEnv} ELSE Envs(fsv)

UploadChoices(f) == IF Joinable(upload_cmd(f)) THEN UploadOutcomes ELSE {NoOutcome}

-----------------------------------------------------------------------------
(* State *)

VARIABLES
  frame,   \* frame[r]: the call r, from the transport's task to its response
  fs,      \* the filesystem
  loop,    \* the call that holds the event loop, 0 when it is free
  oracle,  \* history: what the filesystem and the two processes answered r
  used     \* history: the project directories earlier invocations built in

vars == <<frame, fs, loop, oracle, used>>

NoOracle == [env |-> NoEnv, bout |-> NoOutcome, uout |-> NoOutcome, fs0 |-> InitFs]

Init ==
  /\ frame = [r \in Calls |-> IdleFrame]
  /\ fs = InitFs
  /\ loop = 0
  /\ oracle = [r \in Calls |-> NoOracle]
  /\ used = {}

Hold(r, f) == IF Suspends(f.pc) THEN 0 ELSE r

\* the transport reads a tools/call request and spawns its task; the request's
\* name and arguments are drawn when the event loop first runs the task
Receive(r) ==
  /\ frame[r].pc = "idle"
  /\ frame' = [frame EXCEPT ![r].pc = "pending"]
  /\ UNCHANGED <<fs, loop, oracle, used>>

\* the event loop runs the task: call_tool(name, arguments)
Dispatch(r) ==
  /\ frame[r].pc = "pending"
  /\ loop = 0
  /\ \E req \in Requests :
       LET f == call_tool(req.name, req.arguments) IN
       /\ frame' = [frame EXCEPT ![r] = f]
       /\ loop' = Hold(r, f)
  /\ UNCHANGED <<fs, oracle, used>>

Resolve(r) ==
  /\ frame[r].pc = "resolving"
  /\ loop \in {0, r}
  /\ \E env \in EnvChoices(frame[r], fs) :
       LET res == resolve(frame[r], fs, env) IN
       /\ frame' = [frame EXCEPT ![r] = res.frame]
       /\ fs' = res.fs
       /\ loop' = Hold(r, res.frame)
       /\ oracle' = [oracle EXCEPT ![r].env = env, ![r].fs0 = fs]
       /\ used' = IF res.frame.pc = "building" THEN used \cup {res.frame.project_path} ELSE used

Build(r) ==
  /\ frame[r].pc = "building"
  /\ loop \in {0, r}
  /\ \E out \in BuildOutcomes :
       LET f == build(frame[r], out) IN
       /\ frame' = [frame EXCEPT ![r] = f]
       /\ loop' = Hold(r, f)
       /\ oracle' = [oracle EXCEPT ![r].bout = out]
  /\ UNCHANGED <<fs, used>>

Upload(r) ==
  /\ frame[r].pc = "uploading"
  /\ loop \in {0, r}
  /\ \E out \in UploadChoices(frame[r]) :
       LET f == upload(frame[r], out) IN
       /\ frame' = [frame EXCEPT ![r] = f]
       /\ loop' = Hold(r, f)
       /\ oracle' = [oracle EXCEPT ![r].uout = out]
  /\ UNCHANGED <<fs, used>>

\* call_tool returns or raises to the server, which answers the client; the
\* frame is gone and the event loop is free
Respond(r) ==
  /\ frame[r].pc \in Terminal
  /\ loop \in {0, r}
  /\ frame' = [frame EXCEPT ![r] = [IdleFrame EXCEPT !.pc = "done"]]
  /\ oracle' = [oracle EXCEPT ![r] = NoOracle]
  /\ loop' = 0
  /\ UNCHANGED <<fs, used>>

Next ==
  \E r \in Calls :
    \/ Receive(r)
    \/ Dispatch(r)
    \/ Resolve(r)
    \/ Build(r)
    \/ Upload(r)
    \/ Respond(r)

Spec == Init /\ [][Next]_vars

-----------------------------------------------------------------------------
(* Vocabulary of the properties *)

IsBuildUpload(r) == frame[r].name = "build_upload"
Ended(r) == frame[r].pc \in Terminal

OneText(res) ==
  res.kind = "return" /\ Len(res.content) = 1 /\ res.content[1].type = "text"

Contains(text, sub) ==
  \E i \in 0..(Len(text) - Len(sub)) : SubSeq(text, i + 1, i + Len(sub)) = sub

IsUploadCmd(cmd) == \E i \in 1..Len(cmd) : cmd[i] = Str(<<"upload">>)

ExitedZero(out) == out.kind = "exit" /\ out.code = 0
ExitedNonzero(out) == out.kind = "exit" /\ out.code # 0

\* C1: a build_upload call never raises past handle_build_upload: whatever
\* the arguments and the outcomes of the external commands, it ends with
\* exactly one text segment.
C1_NeverRaises ==
  \A r \in Calls :
    IsBuildUpload(r) /\ Ended(r) => OneText(frame[r].result)

\* C2: the upload command is started only after the build command of the
\* same invocation exited with status zero; after a build that exits nonzero
\* no upload is invoked and the result contains the build's captured output.
C2_UploadOnlyAfterBuild ==
  \A r \in Calls :
    IsBuildUpload(r) =>
      /\ (\E i \in 1..Len(frame[r].cmds) : IsUploadCmd(frame[r].cmds[i]))
           => ExitedZero(oracle[r].bout) /\ ~IsUploadCmd(frame[r].cmds[1])
      /\ frame[r].pc = "uploading" => ExitedZero(oracle[r].bout)
      /\ ExitedNonzero(oracle[r].bout) =>
           /\ Len(frame[r].cmds) = 1
           /\ ~IsUploadCmd(frame[r].cmds[1])
           /\ frame[r].pc = "failed"
           /\ OneText(frame[r].result)
           /\ Contains(frame[r].result.content[1].text, Decode(oracle[r].bout.output))

C2_Witness ==
  \E r \in Calls :
    /\ IsBuildUpload(r)
    /\ oracle[r].bout = Exit(1, <<97, 255, 98>>)
    /\ frame[r].pc = "failed"
    /\ frame[r].result.content[1].text = CMD_ERROR_PREFIX \o <<"a", "b">>

\* C4: whenever the build command or the upload command exits nonzero, the
\* invocation returns one text segment that contains the captured output of
\* the command that failed.
C4_FailureCarriesOutput ==
  \A r \in Calls :
    IsBuildUpload(r) /\ Ended(r) =>
      /\ ExitedNonzero(oracle[r].bout) =>
           /\ OneText(frame[r].result)
           /\ Contains(frame[r].result.content[1].text, Decode(oracle[r].bout.output))
      /\ ExitedNonzero(oracle[r].uout) =>
           /\ OneText(frame[r].result)
           /\ Contains(frame[r].result.content[1].text, Decode(oracle[r].uout.output))

\* the directory a request's project source names: the resolved project_dir,
\* or the temporary directory mkdtemp drew for the inline pair
SuppliedDir(a) == a["project_dir"] # Absent /\ a["project_dir"] # Str(<<>>)
MissingOrEmpty(a, k) == a[k] = Absent \/ a[k] = Str(<<>>)
ResolvedDir(a) == resolve_path(expanduser(Path(a["project_dir"].s)))
ExpectedDir(r) ==
  IF SuppliedDir(frame[r].arguments) THEN ResolvedDir(frame[r].arguments)
  ELSE TmpPath(oracle[r].env.tmp)
ExpectedPort(a) == IF a["port"] = Absent THEN Str(<<"/dev/ttyUSB0">>) ELSE a["port"]

\* C5: when both external commands exit zero the call returns exactly the
\* success segment, and exactly two commands ran, in this order:
\* pio run -d <dir> -e <board_id>, then
\* pio run -d <dir> -e <board_id> -t upload --upload-port <port>,
\* with the resolved project directory, the supplied board_id and the
\* supplied port (/dev/ttyUSB0 when port is absent).
C5_SuccessRunsBuildThenUpload ==
  \A r \in Calls :
    IsBuildUpload(r) /\ ExitedZero(oracle[r].bout) /\ ExitedZero(oracle[r].uout) =>
      LET a == frame[r].arguments
          d == Str(PathStr(ExpectedDir(r)))
      IN /\ frame[r].pc = "succeeded"
         /\ frame[r].result = Return(<<TextContent(SUCCESS_TEXT)>>)
         /\ frame[r].cmds =
              << <<Str(<<"pio">>), Str(<<"run">>), Str(<<"-d">>), d, Str(<<"-e">>), a["board_id"]>>,
                 <<Str(<<"pio">>), Str(<<"run">>), Str(<<"-d">>), d, Str(<<"-e">>), a["board_id"],
                   Str(<<"-t">>), Str(<<"upload">>), Str(<<"--upload-port">>), ExpectedPort(a)>> >>

C5_Witness ==
  \E r \in Calls :
    /\ IsBuildUpload(r)
    /\ ExitedZero(oracle[r].bout) /\ ExitedZero(oracle[r].uout)
    /\ frame[r].arguments["project_dir"] = Str(<<"~", "/", "proj">>)
    /\ frame[r].arguments["port"] = Str(<<"/dev/ttyACM0">>)
    /\ frame[r].cmds[2][4] = Str(<<"/", "home", "/", "user", "/", "proj">>)
    /\ frame[r].pc = "succeeded"

\* whether the request's project source fails to resolve on filesystem fsv
SourceUnresolved(a, fsv) ==
  IF SuppliedDir(a)
  THEN ResolvedDir(a) \notin DOMAIN fsv \/ Join(ResolvedDir(a), "platformio.ini") \notin DOMAIN fsv
  ELSE MissingOrEmpty(a, "platformio_ini") \/ MissingOrEmpty(a, "src")

SignalsMissingSource(text) ==
  \/ Contains(text, <<"Either project_dir or both platformio_ini and src must be provided.">>)
  \/ Contains(text, <<"platformio.ini not found in: ">>)

PastResolve(r) == frame[r].pc \in {"building", "uploading", "succeeded", "failed", "raised"}

NoNewTmp(r) ==
  \A p \in DOMAIN fs : p \notin DOMAIN oracle[r].fs0 => SubSeq(p, 1, 2) # <<"/", "tmp">>

\* C3 as stated: a request whose project source does not resolve ends with
\* one text segment signalling the missing project source, no external
\* command and no temporary directory.
C3_RejectedSignalsSource ==
  \A r \in Calls :
    IsBuildUpload(r) /\ PastResolve(r) /\ SourceUnresolved(frame[r].arguments, oracle[r].fs0) =>
      /\ frame[r].pc = "failed"
      /\ OneText(frame[r].result)
      /\ SignalsMissingSource(frame[r].result.content[1].text)
      /\ frame[r].cmds = <<>>
      /\ NoNewTmp(r)

ArgsParse(a) ==
  /\ a["board_id"] # Absent
  /\ a["baud"] \in {Absent} \cup {v \in BaudVals : v # Absent /\ CanInt(v)}

\* C3 amended: a request whose project source does not resolve ends with
\* exactly one text segment, no external command and no temporary directory;
\* the segment signals the missing project source when board_id is present
\* and baud is absent or coerces to an integer.
C3_Rejected ==
  \A r \in Calls :
    IsBuildUpload(r) /\ PastResolve(r) /\ SourceUnresolved(frame[r].arguments, oracle[r].fs0) =>
      /\ frame[r].pc = "failed"
      /\ OneText(frame[r].result)
      /\ ArgsParse(frame[r].arguments) => SignalsMissingSource(frame[r].result.content[1].text)
      /\ frame[r].cmds = <<>>
      /\ NoNewTmp(r)

C3_Witness ==
  \E r \in Calls :
    /\ IsBuildUpload(r)
    /\ frame[r].arguments["project_dir"] = Str(<<"missing">>)
    /\ ~MissingOrEmpty(frame[r].arguments, "platformio_ini")
    /\ ~MissingOrEmpty(frame[r].arguments, "src")
    /\ frame[r].arguments["board_id"] # Absent
    /\ frame[r].pc = "failed"
    /\ frame[r].result.content[1].text =
         <<"Unexpected error: ", "platformio.ini not found in: ", "/", "work", "/", "missing">>

IsUnknownToolError(res, name) ==
  res = Raise(Exception("ValueError", <<"unknown tool ", name>>))

C6Step ==
  \A r \in Calls :
    /\ frame'[r].pc \in Running \cup Terminal =>
         (IsUnknownToolError(frame'[r].result, frame'[r].name) <=> frame'[r].name \notin ToolNames)
    /\ frame[r].pc = "pending" /\ frame'[r].pc # "pending" /\ frame'[r].name \notin ToolNames =>
         /\ frame'[r].cmds = <<>>
         /\ fs' = fs
         /\ frame'[r].pc = "raised"

\* C6: call_tool signals the unknown-tool error, carrying the name, exactly
\* when the name is not one of the two names list_tools returns; that call
\* invokes no external command and leaves the filesystem as it was.
C6_UnknownTool == [][C6Step]_vars

C6_Witness ==
  \E r \in Calls :
    /\ frame[r].name = "nonexistent_tool"
    /\ frame[r].pc = "raised"
    /\ frame[r].result.exc.msg = <<"unknown tool ", "nonexistent_tool">>

InlineComplete(a) ==
  ~SuppliedDir(a) /\ ~MissingOrEmpty(a, "platformio_ini") /\ ~MissingOrEmpty(a, "src")

HasFile(fsv, p, b) == p \in DOMAIN fsv /\ fsv[p] = [kind |-> "file", bytes |-> b]

\* the temporary project d holds the request's two texts, byte for byte
Staged(fsv, d, a) ==
  /\ d \in DOMAIN fsv
  /\ HasFile(fsv, d \o <<"platformio.ini">>, Encode(a["platformio_ini"].s))
  /\ HasFile(fsv, d \o <<"src", "main.cpp">>, Encode(a["src"].s))

\* C7 as stated: every invocation that receives a complete inline pair ends
\* with a temporary directory that did not exist before and holds both texts.
C7_InlineAlwaysStaged ==
  \A r \in Calls :
    IsBuildUpload(r) /\ Ended(r) /\ InlineComplete(frame[r].arguments) =>
      /\ TmpPath(oracle[r].env.tmp) \notin DOMAIN oracle[r].fs0
      /\ Staged(fs, TmpPath(oracle[r].env.tmp), frame[r].arguments)

FsHealthy(o) == o.env.fserr = "none"

C7Step ==
  /\ \A r \in Calls :
       LET a == frame[r].arguments IN
       /\ frame[r].pc = "resolving" /\ frame'[r].pc # "resolving"
            /\ InlineComplete(a) /\ ArgsParse(a) /\ FsHealthy(oracle'[r]) =>
            LET d == frame'[r].project_path IN
            /\ SubSeq(d, 1, 2) = <<"/", "tmp">>
            /\ d \notin DOMAIN fs
            /\ d \notin used
            /\ Staged(fs', d, a)
       /\ frame'[r].name = "build_upload" /\ frame'[r].pc \in {"building", "uploading"} \cup Terminal
            /\ InlineComplete(frame'[r].arguments) /\ ArgsParse(frame'[r].arguments)
            /\ FsHealthy(oracle'[r]) =>
            Staged(fs', frame'[r].project_path, frame'[r].arguments)
  /\ \A p \in DOMAIN fs : p \in DOMAIN fs' /\ fs'[p] = fs[p]

\* C7 amended: every invocation that receives a complete inline pair, with
\* board_id present, baud absent or coercible to an integer, and no
\* filesystem error while staging, creates a temporary directory that did not
\* exist and that no earlier invocation used, holding platformio.ini and
\* src/main.cpp with the supplied texts encoded as UTF-8; the directory and
\* both files are there, unchanged, when the invocation ends and ever after.
C7_InlineStaged == [][C7Step]_vars

C7_Witness ==
  \E r \in Calls :
    /\ IsBuildUpload(r)
    /\ frame[r].pc = "raised"
    /\ InlineComplete(frame[r].arguments)
    /\ HasFile(fs, frame[r].project_path \o <<"platformio.ini">>, <<91, 97, 93>>)
    /\ HasFile(fs, frame[r].project_path \o <<"src", "main.cpp">>, <<98, 195, 169, 59>>)
    /\ \E p \in DOMAIN fs :
         /\ SubSeq(p, 1, 2) = <<"/", "tmp">>
         /\ Len(p) = 3
         /\ p # frame[r].project_path
         /\ p \in used

CommandFailed(out) == out.kind = "oserror" \/ ExitedNonzero(out)

C8Step ==
  \A r \in Calls :
    frame'[r].name = "build_upload" /\ frame'[r] # frame[r] =>
      LET f == frame[r]
          g == frame'[r]
      IN
      /\ \/ f.pc = "pending" /\ g.pc = "resolving"
         \/ f.pc = "resolving" /\ g.pc \in {"building", "failed"}
         \/ f.pc = "building" /\ g.pc \in {"uploading", "failed"}
         \/ f.pc = "uploading" /\ g.pc \in {"succeeded", "failed"}
      /\ g.cmds = f.cmds \/ (Len(g.cmds) = Len(f.cmds) + 1 /\ SubSeq(g.cmds, 1, Len(f.cmds)) = f.cmds)
      /\ Cardinality({i \in 1..Len(g.cmds) : IsUploadCmd(g.cmds[i])}) <= 1
      /\ Cardinality({i \in 1..Len(g.cmds) : ~IsUploadCmd(g.cmds[i])}) <= 1
      /\ CommandFailed(oracle[r].bout) \/ CommandFailed(oracle[r].uout) => g.cmds = f.cmds
      /\ g.pc = "failed" =>
           /\ OneText(g.result)
           /\ Len(g.result.content[1].text) >= 2
      /\ g.pc = "succeeded" => g.result = Return(<<TextContent(SUCCESS_TEXT)>>)

\* C8: an invocation moves Resolving -> Building -> Uploading -> Succeeded,
\* never backwards and never retrying: at most one build and one upload
\* command, none after a command failed, and a failure in Resolving, Building
\* or Uploading leads directly to Failed with a diagnostic message.
C8_StateMachine == [][C8Step]_vars

CoercibleBauds == {v \in BaudVals : v = Absent \/ CanInt(v)}

\* C9: baud reaches no external command: a request that differs only in
\* baud, both bauds absent or coercible to an integer, with the same answers
\* from the filesystem and the processes, invokes the same commands and
\* returns the same segment.
C9_BaudUnused ==
  \A r \in Calls :
    IsBuildUpload(r) /\ Ended(r) /\ frame[r].arguments["baud"] \in CoercibleBauds =>
      \A b \in CoercibleBauds :
        LET twin == Run("build_upload", [frame[r].arguments EXCEPT !["baud"] = b], oracle[r])
        IN /\ twin.frame.cmds = frame[r].cmds
           /\ twin.frame.result = frame[r].result
           /\ twin.fs = fs

C9_Witness ==
  \E r \in Calls :
    /\ IsBuildUpload(r)
    /\ frame[r].arguments["baud"] = Int_(9600)
    /\ frame[r].baud = Int_(9600)
    /\ frame[r].pc = "succeeded"
    /\ Len(frame[r].cmds) = 2
    /\ Run("build_upload", [frame[r].arguments EXCEPT !["baud"] = Absent], oracle[r]).frame.baud
         = Int_(115200)

InHandler(r) == frame[r].pc \in Running \cup Terminal

\* C10: invocations never interleave: from the first statement of one
\* invocation to the return of its result no other invocation is inside its
\* handler, so no file write or command of another invocation falls between.
C10_NoInterleaving ==
  \A r, q \in Calls :
    r # q /\ InHandler(r) => ~InHandler(q) /\ loop = r

C10_Witness ==
  \E r, q \in Calls :
    /\ r # q
    /\ frame[r].pc = "uploading"
    /\ IsBuildUpload(r)
    /\ frame[q].pc = "pending"

====
